---- MODULE Spec2Model ----
(***************************************************************************)
(* Model of the SimpleFileManager MCP server (LiamCarver/Local-IO-MCP).    *)
(*                                                                         *)
(* Two variants of the server exist in the repository:                     *)
(*   "isolated" - the process-wide workspace variant (initialize_work,     *)
(*                names resolved inside /workspace/<uuid>);                *)
(*   "direct"   - the repoPath variant (paths resolved against the         *)
(*                process's current directory, no containment check).     *)
(*                                                                         *)
(* A JavaScript string is a sequence of pieces.  A piece is one character  *)
(* ("a", ".", "/", "@", ...) or one literal chunk of source text that      *)
(* contains none of the characters the code inspects ("workspace",         *)
(* "git", "commit", "Error reading file: ", ...).                          *)
(***************************************************************************)
EXTENDS Integers, Sequences, FiniteSets, TLC

VARIABLES
    variant,              \* which server runs: "isolated" or "direct"
    workspaceFolderName,  \* let workspaceFolderName (NULL = null)
    fs,                   \* the filesystem: components |-> node
    env,                  \* process.env: PROJECT_REPO, GITHUB_TOKEN
    uuidCount,            \* how many UUIDs crypto.randomUUID() has issued
    history,              \* identifiers of the successful initialize_work calls
    written,              \* name |-> content of the standing write_file
    call,                 \* the last request: tool and arguments
    result,               \* what the last handler returned or raised
    thrown,               \* the error raised inside the last handler
    ops,                  \* calls to fs / child_process made by the last handler
    input                 \* the argument under study of a single-input run

vars == <<variant, workspaceFolderName, fs, env, uuidCount, history, written,
          call, result, thrown, ops, input>>

(***************************************************************************)
(* Bounds of the model.                                                    *)
(***************************************************************************)
MaxUUID == 3        \* initialize_work calls per run
MaxNameLen == 4     \* characters in a file name (exhaustive resolver runs)
MaxMsgLen == 3      \* characters in a commit message
MaxRepoLen == 4     \* pieces in PROJECT_REPO after the scheme
MaxContentLen == 2  \* UTF-16 code units in a written content

NULL == <<"null">>            \* the value null
Undefined == <<"undefined">>  \* the value undefined
NoError == <<>>

(***************************************************************************)
(* Strings.                                                                *)
(***************************************************************************)
RECURSIVE Concat(_)
Concat(ss) == IF ss = <<>> THEN <<>> ELSE Head(ss) \o Concat(Tail(ss))

StartsWith(s, prefix) ==
    /\ Len(prefix) <= Len(s)
    /\ SubSeq(s, 1, Len(prefix)) = prefix

RECURSIVE JoinWith(_, _)
JoinWith(ss, sep) ==
    IF ss = <<>> THEN <<>>
    ELSE IF Len(ss) = 1 THEN ss[1]
    ELSE ss[1] \o sep \o JoinWith(Tail(ss), sep)

RECURSIVE SplitFrom(_, _, _)
SplitFrom(s, i, cur) ==
    IF i > Len(s) THEN <<cur>>
    ELSE IF s[i] = "/" THEN <<cur>> \o SplitFrom(s, i + 1, <<>>)
    ELSE SplitFrom(s, i + 1, Append(cur, s[i]))

\* s.split("/")
Split(s) == SplitFrom(s, 1, <<>>)

SeqsUpTo(S, n) == UNION {[1..k -> S] : k \in 0..n}

(***************************************************************************)
(* Node's posix path module.                                               *)
(***************************************************************************)
Dot == <<".">>
DotDot == <<".", ".">>

RECURSIVE NormalizeFrom(_, _, _)
NormalizeFrom(segs, i, stack) ==
    IF i > Len(segs) THEN stack
    ELSE LET g == segs[i] IN
         IF g = <<>> \/ g = Dot THEN NormalizeFrom(segs, i + 1, stack)
         ELSE IF g = DotDot
              THEN NormalizeFrom(segs, i + 1,
                       IF stack = <<>> THEN <<>>
                       ELSE SubSeq(stack, 1, Len(stack) - 1))
              ELSE NormalizeFrom(segs, i + 1, Append(stack, g))

\* normalizeString of an absolute path: the components that remain
Components(p) == NormalizeFrom(Split(p), 1, <<>>)

\* the absolute path string of a list of components
AbsPath(comps) ==
    IF comps = <<>> THEN <<"/">>
    ELSE Concat([i \in 1..Len(comps) |-> <<"/">> \o comps[i]])

IsAbsolute(p) == Len(p) > 0 /\ p[1] = "/"

\* process.cwd(): WORKDIR /app, CMD node src/server.js
Cwd == <<"/", "app">>

\* path.resolve(a) and path.resolve(a, b): arguments are taken from the right
\* until an absolute one is found, empty ones are skipped, the current
\* directory is the fallback, and the result is normalized without a
\* trailing slash.
PathResolve(args) ==
    LET n == Len(args)
        last == args[n]
        raw == IF IsAbsolute(last) THEN last
               ELSE IF n = 2 /\ IsAbsolute(args[1])
                    THEN IF last = <<>> THEN args[1]
                         ELSE args[1] \o <<"/">> \o last
               ELSE IF n = 2 /\ args[1] # <<>>
                    THEN Cwd \o <<"/">> \o args[1] \o <<"/">> \o last
               ELSE Cwd \o <<"/">> \o last
    IN  AbsPath(Components(raw))

\* path.join(a, b) for an absolute a: normalize(a + "/" + b); normalize keeps
\* a trailing slash
PathJoin(a, b) ==
    LET raw == IF b = <<>> THEN a ELSE a \o <<"/">> \o b
        norm == AbsPath(Components(raw))
    IN  IF raw[Len(raw)] = "/" /\ norm # <<"/">> THEN norm \o <<"/">> ELSE norm

(***************************************************************************)
(* utf-8 encoding of fs.writeFile(..., "utf-8") and decoding of            *)
(* fs.readFile(..., "utf-8").  A content is a sequence of UTF-16 code      *)
(* units: "x", "y" (ordinary characters), "HI" / "LO" (a high / low        *)
(* surrogate), "FFFD" (U+FFFD).  File data is a sequence of encoded        *)
(* scalar values: a surrogate pair becomes one 4-byte value "PAIR", an     *)
(* unpaired surrogate is written as the bytes of U+FFFD.                   *)
(***************************************************************************)
RECURSIVE Utf8Encode(_)
Utf8Encode(s) ==
    IF s = <<>> THEN <<>>
    ELSE IF s[1] = "HI" /\ Len(s) >= 2 /\ s[2] = "LO"
         THEN <<"PAIR">> \o Utf8Encode(SubSeq(s, 3, Len(s)))
    ELSE IF s[1] \in {"HI", "LO"}
         THEN <<"FFFD">> \o Utf8Encode(Tail(s))
    ELSE <<s[1]>> \o Utf8Encode(Tail(s))

RECURSIVE Utf8Decode(_)
Utf8Decode(d) ==
    IF d = <<>> THEN <<>>
    ELSE IF d[1] = "PAIR" THEN <<"HI", "LO">> \o Utf8Decode(Tail(d))
    ELSE <<d[1]>> \o Utf8Decode(Tail(d))

(***************************************************************************)
(* The filesystem.  A state f maps the components of every existing path   *)
(* (the root directory <<>> always exists) to a node.  Each operation      *)
(* takes a path string, looks its components up as the kernel does, and    *)
(* returns [error, value, fs].                                             *)
(***************************************************************************)
DirNode == [type |-> "dir", data |-> <<>>]
FileNode(data) == [type |-> "file", data |-> data]

ENOENT == <<"ENOENT">>
ENOTDIR == <<"ENOTDIR">>
EISDIR == <<"EISDIR">>
EEXIST == <<"EEXIST">>
EIO == <<"EIO">>

Exists(f, c) == c = <<>> \/ c \in DOMAIN f
IsDir(f, c) == c = <<>> \/ (c \in DOMAIN f /\ f[c].type = "dir")
IsPrefix(a, b) == Len(a) <= Len(b) /\ SubSeq(b, 1, Len(a)) = a
Parent(c) == SubSeq(c, 1, Len(c) - 1)
ChildrenOf(f, c) == {d \in DOMAIN f : Len(d) = Len(c) + 1 /\ IsPrefix(c, d)}
Remove(f, gone) == [c \in DOMAIN f \ gone |-> f[c]]
Put(f, c, node) == [d \in DOMAIN f \cup {c} |-> IF d = c THEN node ELSE f[d]]

\* the error of walking the directories that lead to c
WalkError(f, c) ==
    LET bad == {k \in 1..(Len(c) - 1) : ~IsDir(f, SubSeq(c, 1, k))} IN
    IF bad = {} THEN NoError
    ELSE LET k == CHOOSE k \in bad : \A j \in bad : k <= j IN
         IF Exists(f, SubSeq(c, 1, k)) THEN ENOTDIR ELSE ENOENT

FsResult(error, value, f) == [error |-> error, value |-> value, fs |-> f]

FsReadFile(f, p) ==
    LET c == Components(p) IN
    IF WalkError(f, c) # NoError THEN FsResult(WalkError(f, c), <<>>, f)
    ELSE IF ~Exists(f, c) THEN FsResult(ENOENT, <<>>, f)
    ELSE IF IsDir(f, c) THEN FsResult(EISDIR, <<>>, f)
    ELSE FsResult(NoError, Utf8Decode(f[c].data), f)

\* writeFile opened for appending
FsWriteFile_Append(f, p, content) ==
    LET c == Components(p) IN
    IF WalkError(f, c) # NoError THEN FsResult(WalkError(f, c), <<>>, f)
    ELSE IF IsDir(f, c) THEN FsResult(EISDIR, <<>>, f)
    ELSE FsResult(NoError, <<>>,
             Put(f, c, FileNode((IF Exists(f, c) THEN f[c].data ELSE <<>>)
                                    \o Utf8Encode(content))))

FsWriteFile(f, p, content) ==
    LET c == Components(p) IN
    IF WalkError(f, c) # NoError THEN FsResult(WalkError(f, c), <<>>, f)
    ELSE IF IsDir(f, c) THEN FsResult(EISDIR, <<>>, f)
    ELSE FsResult(NoError, <<>>, Put(f, c, FileNode(Utf8Encode(content))))

\* unlink that ignores a missing file, as rm with force does
FsUnlink_Force(f, p) ==
    LET c == Components(p) IN
    IF c \in DOMAIN f /\ f[c].type = "file" THEN FsResult(NoError, <<>>, Remove(f, {c}))
    ELSE IF IsDir(f, c) THEN FsResult(EISDIR, <<>>, f)
    ELSE FsResult(NoError, <<>>, f)

FsUnlink(f, p) ==
    LET c == Components(p) IN
    IF WalkError(f, c) # NoError THEN FsResult(WalkError(f, c), <<>>, f)
    ELSE IF ~Exists(f, c) THEN FsResult(ENOENT, <<>>, f)
    ELSE IF IsDir(f, c) THEN FsResult(EISDIR, <<>>, f)
    ELSE FsResult(NoError, <<>>, Remove(f, {c}))

\* fs.mkdir(p, { recursive: true })
FsMkdirRecursive(f, p) ==
    LET c == Components(p)
        pre == {SubSeq(c, 1, k) : k \in 1..Len(c)}
    IN  IF \E q \in pre : Exists(f, q) /\ ~IsDir(f, q)
        THEN FsResult(IF Exists(f, c) /\ ~IsDir(f, c) THEN EEXIST ELSE ENOTDIR,
                      <<>>, f)
        ELSE FsResult(NoError, <<>>,
                 [d \in DOMAIN f \cup pre |-> IF d \in DOMAIN f THEN f[d] ELSE DirNode])

\* fs.mkdir(p)
FsMkdir(f, p) ==
    LET c == Components(p) IN
    IF WalkError(f, c) # NoError THEN FsResult(WalkError(f, c), <<>>, f)
    ELSE IF Exists(f, c) THEN FsResult(EEXIST, <<>>, f)
    ELSE FsResult(NoError, <<>>, Put(f, c, DirNode))

\* fs.readdir(p, { withFileTypes: true }): the entries, in no defined order
FsReaddir(f, p) ==
    LET c == Components(p) IN
    IF WalkError(f, c) # NoError THEN FsResult(WalkError(f, c), {}, f)
    ELSE IF ~Exists(f, c) THEN FsResult(ENOENT, {}, f)
    ELSE IF ~IsDir(f, c) THEN FsResult(ENOTDIR, {}, f)
    ELSE FsResult(NoError,
             {[name |-> d[Len(d)], isDirectory |-> f[d].type = "dir"] :
                 d \in ChildrenOf(f, c)}, f)

\* fs.cp(src, dst, { recursive }): the whole tree under src appears under dst
FsCp(f, src, dst) ==
    LET s == Components(src)
        t == Components(dst)
        tree == {d \in DOMAIN f : IsPrefix(s, d)}
        image == {t \o SubSeq(d, Len(s) + 1, Len(d)) : d \in tree}
    IN  [d \in DOMAIN f \cup image |->
            IF d \in image THEN f[s \o SubSeq(d, Len(t) + 1, Len(d))] ELSE f[d]]

\* an rm that removes nothing
FsRm_Keep(f, src) == f

\* fs.rm(src, { recursive, force: true })
FsRm(f, src) ==
    LET s == Components(src) IN Remove(f, {d \in DOMAIN f : IsPrefix(s, d)})

\* every order in which readdir can return a set of entries
Orders(S) == {q \in [1..Cardinality(S) -> S] : \A i, j \in DOMAIN q : q[i] = q[j] => i = j}

(***************************************************************************)
(* What a handler hands back to the dispatcher.                            *)
(***************************************************************************)
TextItem(text) == [type |-> "text", text |-> text]

\* return { content: [{ type: "text", text }] }
ToolResult(text) == [kind |-> "result", content |-> <<TextItem(text)>>]

\* return { content: [{ type: "text", text }], isError: true }
ToolError(text) ==
    [kind |-> "result", content |-> <<TextItem(text)>>, isError |-> TRUE]

\* an error that leaves the handler
Raised(message) == [kind |-> "throw", message |-> message]

\* what a step inside a try block yields: an error or a value, the calls it
\* made to fs / child_process, and the filesystem it leaves
Outcome(error, value, effects, f) ==
    [error |-> error, value |-> value, effects |-> effects, fs |-> f]

Effect(op, path, arg) == [op |-> op, path |-> path, arg |-> arg]

\* a handler without its catch block
TryCatch_Uncaught(prefix, o) ==
    IF o.error = NoError THEN ToolResult(o.value) ELSE Raised(o.error)

\* try { ... return { content: [text] } }
\* catch (error) { return { content: [prefix + error.message], isError: true } }
TryCatch(prefix, o) ==
    IF o.error = NoError THEN ToolResult(o.value)
    ELSE ToolError(<<prefix>> \o o.error)

Respond(tool, args, res, o) ==
    /\ call' = [tool |-> tool, args |-> args]
    /\ result' = res
    /\ thrown' = o.error
    /\ ops' = o.effects
    /\ fs' = o.fs

(***************************************************************************)
(* Workspace state and path resolution of the isolated variant.            *)
(***************************************************************************)
WORKSPACE_ROOT == <<"/", "workspace">>

NotInitialized == <<"Workspace not initialized. Run initialize_work first.">>
InvalidFileName == <<"Invalid file name.">>

\* !v for a string, null or undefined
Falsy(v) == v \in {NULL, Undefined, <<>>}

\* getWorkspaceDir without its guard
getWorkspaceDir_Unguarded ==
    [error |-> NoError, value |-> PathJoin(WORKSPACE_ROOT, workspaceFolderName)]

getWorkspaceDir ==
    IF Falsy(workspaceFolderName)
    THEN [error |-> NotInitialized, value |-> <<>>]
    ELSE [error |-> NoError, value |-> PathJoin(WORKSPACE_ROOT, workspaceFolderName)]

\* getWorkspaceFilePath comparing against the directory without path.sep
getWorkspaceFilePath_NoSep(fileName) ==
    LET workspaceDir == getWorkspaceDir IN
    IF workspaceDir.error # NoError THEN workspaceDir
    ELSE LET resolvedWorkspaceDir == PathResolve(<<workspaceDir.value>>)
             resolvedPath == PathResolve(<<workspaceDir.value, fileName>>)
         IN  IF ~StartsWith(resolvedPath, resolvedWorkspaceDir)
             THEN [error |-> InvalidFileName, value |-> <<>>]
             ELSE [error |-> NoError, value |-> resolvedPath]

getWorkspaceFilePath(fileName) ==
    LET workspaceDir == getWorkspaceDir IN
    IF workspaceDir.error # NoError THEN workspaceDir
    ELSE LET resolvedWorkspaceDir == PathResolve(<<workspaceDir.value>>)
             resolvedPath == PathResolve(<<workspaceDir.value, fileName>>)
         IN  IF ~StartsWith(resolvedPath, resolvedWorkspaceDir \o <<"/">>)
             THEN [error |-> InvalidFileName, value |-> <<>>]
             ELSE [error |-> NoError, value |-> resolvedPath]

\* path.resolve(filePath) of the direct variant
resolveDirect(filePath) == [error |-> NoError, value |-> PathResolve(<<filePath>>)]

(***************************************************************************)
(* crypto.randomUUID(): the n-th call returns the n-th of a list of        *)
(* distinct identifiers (random version-4 UUIDs do not repeat).            *)
(***************************************************************************)
UuidPieces == <<"u1", "u2", "u3", "u4", "u5", "u6">>
randomUUID == <<UuidPieces[uuidCount + 1]>>

(***************************************************************************)
(* initialize_work.                                                        *)
(***************************************************************************)
Faults == {"none", "mkdirRoot", "mkdirFolder", "readdir", "cp", "rm"}

\* lines 51-53: both mkdir calls and readdir.  fault names the call that the
\* environment makes fail (permission, disk); an mkdir or readdir can also
\* fail because of what the filesystem holds.
InitPrepare(f, folderPath, fault) ==
    LET e1 == <<Effect("mkdir", WORKSPACE_ROOT, <<"recursive">>)>>
        m1 == FsMkdirRecursive(f, WORKSPACE_ROOT)
        e2 == Append(e1, Effect("mkdir", folderPath, <<>>))
        m2 == FsMkdir(m1.fs, folderPath)
        e3 == Append(e2, Effect("readdir", WORKSPACE_ROOT, <<>>))
        r3 == FsReaddir(m2.fs, WORKSPACE_ROOT)
    IN  IF fault = "mkdirRoot" THEN Outcome(EIO, {}, e1, f)
        ELSE IF m1.error # NoError THEN Outcome(m1.error, {}, e1, f)
        ELSE IF fault = "mkdirFolder" THEN Outcome(EIO, {}, e2, m1.fs)
        ELSE IF m2.error # NoError THEN Outcome(m2.error, {}, e2, m1.fs)
        ELSE IF fault = "readdir" THEN Outcome(EIO, {}, e3, m2.fs)
        ELSE Outcome(r3.error, r3.value, e3, m2.fs)

\* lines 54-64: the loop over the entries, in the order readdir gave them.
\* order leaves out the entry of the new folder, which the loop skips.
\* fault "cp" / "rm" makes that call fail for entry number failAt.
RECURSIVE MoveEntries(_, _, _, _, _, _, _)
MoveEntries(f, effects, folderPath, order, i, fault, failAt) ==
    IF i > Len(order) THEN Outcome(NoError, {}, effects, f)
    ELSE LET entry == order[i]
             sourcePath == PathJoin(WORKSPACE_ROOT, entry.name)
             destinationPath == PathJoin(folderPath, entry.name)
             eCp == Append(effects, Effect("cp", sourcePath, destinationPath))
             eRm == Append(eCp, Effect("rm", sourcePath, <<>>))
             copied == FsCp(f, sourcePath, destinationPath)
         IN  IF i = failAt /\ fault = "cp" THEN Outcome(EIO, {}, eCp, f)
             ELSE IF i = failAt /\ fault = "rm" THEN Outcome(EIO, {}, eRm, copied)
             ELSE MoveEntries(FsRm(copied, sourcePath), eRm, folderPath, order,
                              i + 1, fault, failAt)

InitReturn(folderName, o) ==
    IF o.error = NoError
    THEN ToolResult(<<"Initialized workspace folder: ">> \o folderName)
    ELSE ToolError(<<"Error initializing workspace: ">> \o o.error)

\* the assignment made only while nothing is assigned yet
InitAssign_Once(folderName, o) ==
    IF o.error = NoError /\ workspaceFolderName = NULL THEN folderName
    ELSE workspaceFolderName

\* the assignment moved in front of the try block's work
InitAssign_Early(folderName, o) == folderName

\* line 65, reached only when nothing before it threw
InitAssign(folderName, o) ==
    IF o.error = NoError THEN folderName ELSE workspaceFolderName

InitFinish(folderName, o) ==
    /\ Respond("initialize_work", <<>>, InitReturn(folderName, o), o)
    /\ workspaceFolderName' = InitAssign(folderName, o)
    /\ history' = IF o.error = NoError THEN Append(history, folderName) ELSE history
    /\ uuidCount' = uuidCount + 1
    /\ written' = <<>>
    /\ UNCHANGED <<variant, input, env>>

initialize_work ==
    /\ variant = "isolated"
    /\ uuidCount < MaxUUID
    /\ LET folderName == randomUUID
           folderPath == PathJoin(WORKSPACE_ROOT, folderName)
       IN  \E fault \in Faults :
             LET pre == InitPrepare(fs, folderPath, fault) IN
             IF pre.error # NoError \/ fault \in {"mkdirRoot", "mkdirFolder", "readdir"}
             THEN /\ pre.error # NoError
                  /\ InitFinish(folderName, pre)
             ELSE \E order \in Orders({e \in pre.value : e.name # folderName}) :
                  \E failAt \in 1..Len(order) \cup {0} :
                    /\ (fault = "none") = (failAt = 0)
                    /\ InitFinish(folderName,
                           MoveEntries(pre.fs, pre.effects, folderPath, order, 1,
                                       fault, failAt))

(***************************************************************************)
(* The standing writes.  written[name] records a write_file(name, content) *)
(* that succeeded, as long as no later write_file or delete_file call      *)
(* named the same name and no initialize_work call was made; touched       *)
(* tells that a later write_file or delete_file call reached the same      *)
(* file under another name.                                               *)
(***************************************************************************)
Touch(w, name, path) ==
    [n \in DOMAIN w \ {name} |->
        IF w[n].path = path THEN [w[n] EXCEPT !.touched = TRUE] ELSE w[n]]

NoteWrite(name, content, resolved, o) ==
    LET w == IF resolved.error = NoError THEN Touch(written, name, resolved.value)
             ELSE Touch(written, name, <<>>)
    IN  IF o.error # NoError THEN w
        ELSE [n \in DOMAIN w \cup {name} |->
                 IF n = name
                 THEN [content |-> content, path |-> resolved.value, touched |-> FALSE]
                 ELSE w[n]]

NoteDelete(name, resolved) ==
    IF resolved.error = NoError THEN Touch(written, name, resolved.value)
    ELSE Touch(written, name, <<>>)

(***************************************************************************)
(* The file tools.  resolved is the outcome of resolving the name.         *)
(***************************************************************************)
ReadFile(resolved) ==
    IF resolved.error # NoError THEN Outcome(resolved.error, <<>>, <<>>, fs)
    ELSE LET r == FsReadFile(fs, resolved.value) IN
         Outcome(r.error, r.value, <<Effect("readFile", resolved.value, <<>>)>>, fs)

WriteFile(resolved, content, done) ==
    IF resolved.error # NoError THEN Outcome(resolved.error, <<>>, <<>>, fs)
    ELSE LET r == FsWriteFile(fs, resolved.value, content) IN
         Outcome(r.error, done,
                 <<Effect("writeFile", resolved.value, content)>>, r.fs)

Unlink(resolved, done) ==
    IF resolved.error # NoError THEN Outcome(resolved.error, <<>>, <<>>, fs)
    ELSE LET r == FsUnlink(fs, resolved.value) IN
         Outcome(r.error, done, <<Effect("unlink", resolved.value, <<>>)>>, r.fs)

\* entries.map(entry => `${type}\t${entry.name}`).join("\n")
Listing(order) ==
    JoinWith([i \in 1..Len(order) |->
                 <<IF order[i].isDirectory THEN "dir" ELSE "file", "\t">>
                     \o order[i].name],
             <<"\n">>)

Readdir(resolved, order) ==
    IF resolved.error # NoError THEN Outcome(resolved.error, <<>>, <<>>, fs)
    ELSE LET r == FsReaddir(fs, resolved.value) IN
         Outcome(r.error, IF r.error = NoError THEN Listing(order) ELSE <<>>,
                 <<Effect("readdir", resolved.value, <<>>)>>, fs)

ReaddirOrders(resolved) ==
    IF resolved.error # NoError THEN {<<>>}
    ELSE Orders(FsReaddir(fs, resolved.value).value)

read_file(name) ==
    /\ variant = "isolated"
    /\ LET o == ReadFile(getWorkspaceFilePath(name)) IN
       Respond("read_file", <<name>>, TryCatch("Error reading file: ", o), o)
    /\ UNCHANGED <<variant, input, workspaceFolderName, env, uuidCount, history, written>>

write_file(name, content) ==
    /\ variant = "isolated"
    /\ LET resolved == getWorkspaceFilePath(name)
           o == WriteFile(resolved, content, <<"Successfully wrote to ">> \o name)
       IN  /\ Respond("write_file", <<name, content>>,
                      TryCatch("Error writing file: ", o), o)
           /\ written' = NoteWrite(name, content, resolved, o)
    /\ UNCHANGED <<variant, input, workspaceFolderName, env, uuidCount, history>>

delete_file(name) ==
    /\ variant = "isolated"
    /\ LET resolved == getWorkspaceFilePath(name)
           o == Unlink(resolved, <<"Successfully deleted ">> \o name)
       IN  /\ Respond("delete_file", <<name>>, TryCatch("Error deleting file: ", o), o)
           /\ written' = NoteDelete(name, resolved)
    /\ UNCHANGED <<variant, input, workspaceFolderName, env, uuidCount, history>>

list_dir ==
    /\ variant = "isolated"
    /\ \E order \in ReaddirOrders(getWorkspaceDir) :
         LET o == Readdir(getWorkspaceDir, order) IN
         Respond("list_dir", <<>>, TryCatch("Error listing directory: ", o), o)
    /\ UNCHANGED <<variant, input, workspaceFolderName, env, uuidCount, history, written>>

(***************************************************************************)
(* The command runner.  exit is what the child process does: it succeeds   *)
(* with some stdout or fails (non-zero exit, or no process when the        *)
(* working directory is missing).  What git does to the repository is not  *)
(* part of the model; the handler's call to exec is.                       *)
(***************************************************************************)
GitExits ==
    { [ok |-> TRUE, stdout |-> <<>>], [ok |-> TRUE, stdout |-> <<"stdout">>],
      [ok |-> FALSE, stdout |-> <<>>] }

\* exec cannot start the shell in a cwd that is no directory
SpawnFailed == <<"spawn /bin/sh ENOENT">>
CommandFailed(cmd) == <<"Command failed: ">> \o cmd

execAsync(cmd, cwd, exit) ==
    IF ~IsDir(fs, Components(cwd))
    THEN Outcome(SpawnFailed, <<>>, <<Effect("exec", cwd, cmd)>>, fs)
    ELSE IF exit.ok
    THEN Outcome(NoError, exit.stdout, <<Effect("exec", cwd, cmd)>>, fs)
    ELSE Outcome(CommandFailed(cmd), <<>>, <<Effect("exec", cwd, cmd)>>, fs)

\* `git ${args.join(" ")}`
CommandLine(args) == <<"git", " ">> \o JoinWith(args, <<" ">>)

\* the options object { cwd: getWorkspaceDir() } is built before exec is called
runGit(args, exit) ==
    LET dir == getWorkspaceDir IN
    IF dir.error # NoError THEN Outcome(dir.error, <<>>, <<>>, fs)
    ELSE execAsync(CommandLine(args), dir.value, exit)

resolveRepoPath(repoPath) ==
    IF Falsy(repoPath) THEN Cwd ELSE PathResolve(<<repoPath>>)

runGitDirect(args, repoPath, exit) ==
    execAsync(CommandLine(args), resolveRepoPath(repoPath), exit)

\* replace without the g flag: the first quote only
EscapeQuotes_First(message) ==
    LET quotes == {i \in 1..Len(message) : message[i] = "\""} IN
    IF quotes = {} THEN message
    ELSE LET i == CHOOSE i \in quotes : \A j \in quotes : i <= j IN
         SubSeq(message, 1, i - 1) \o <<"\\", "\"">> \o SubSeq(message, i + 1, Len(message))

\* message.replace(/"/g, '\\"')
RECURSIVE EscapeQuotes(_)
EscapeQuotes(message) ==
    IF message = <<>> THEN <<>>
    ELSE IF message[1] = "\"" THEN <<"\\", "\"">> \o EscapeQuotes(Tail(message))
    ELSE <<message[1]>> \o EscapeQuotes(Tail(message))

CommitArgs(message) ==
    << <<"commit">>, <<"-m">>, <<"\"">> \o EscapeQuotes(message) \o <<"\"">> >>

DiffArgs(staged, file) ==
    << <<"diff">> >> \o (IF staged THEN << <<"--staged">> >> ELSE <<>>)
                    \o (IF Falsy(file) THEN <<>> ELSE <<file>>)

BranchDeleteArgs(branch, force) ==
    << <<"branch">>, IF force THEN <<"-D">> ELSE <<"-d">>, branch >>

CheckoutArgs(branch, startPoint) ==
    << <<"checkout">>, <<"-b">>, branch >>
        \o (IF Falsy(startPoint) THEN <<>> ELSE <<startPoint>>)

BranchCreateArgs(branch, startPoint) ==
    << <<"branch">>, branch >> \o (IF Falsy(startPoint) THEN <<>> ELSE <<startPoint>>)

PushArgs(branch) == << <<"push">>, <<"-u">>, <<"origin">>, branch >>

\* repo.replace(/^https?:\/\//, "")
StripScheme(repo) ==
    IF StartsWith(repo, <<"http", ":", "/", "/">>) THEN SubSeq(repo, 5, Len(repo))
    ELSE IF StartsWith(repo, <<"http", "s", ":", "/", "/">>)
         THEN SubSeq(repo, 6, Len(repo))
    ELSE repo

\* .replace(/^[^@]+@/, "")
StripUser(repo) ==
    LET ats == {i \in 1..Len(repo) : repo[i] = "@"} IN
    IF ats = {} THEN repo
    ELSE LET first == CHOOSE i \in ats : \A j \in ats : i <= j IN
         IF first = 1 THEN repo ELSE SubSeq(repo, first + 1, Len(repo))

\* .replace(/\/+$/, "")
RECURSIVE StripTrailingSlashes(_)
StripTrailingSlashes(repo) ==
    IF repo # <<>> /\ repo[Len(repo)] = "/"
    THEN StripTrailingSlashes(SubSeq(repo, 1, Len(repo) - 1))
    ELSE repo

RemoteUrl(repo, token) ==
    LET repoWithoutScheme == StripTrailingSlashes(StripUser(StripScheme(repo)))
    IN  <<"http", "s", ":", "/", "/">> \o token \o <<"@">> \o repoWithoutScheme

WithValue(o, text) == IF o.error = NoError THEN [o EXCEPT !.value = text] ELSE o

GitRespond(tool, args, prefix, o) ==
    /\ Respond(tool, args, TryCatch(prefix, o), o)
    /\ UNCHANGED <<variant, input, workspaceFolderName, env, uuidCount, history, written>>

(***************************************************************************)
(* The git tools of the isolated variant.                                  *)
(***************************************************************************)
git_status(exit) ==
    /\ variant = "isolated"
    /\ GitRespond("git_status", <<>>, "Error running git status: ",
                  runGit(<< <<"status">> >>, exit))

git_diff(staged, file, exit) ==
    /\ variant = "isolated"
    /\ GitRespond("git_diff", <<staged, file>>, "Error running git diff: ",
                  runGit(DiffArgs(staged, file), exit))

git_add(files, exit) ==
    /\ variant = "isolated"
    /\ GitRespond("git_add", <<files>>, "Error running git add: ",
                  WithValue(runGit(<< <<"add">> >> \o files, exit),
                            <<"Successfully added: ">> \o JoinWith(files, <<",", " ">>)))

git_commit(message, exit) ==
    /\ variant = "isolated"
    /\ GitRespond("git_commit", <<message>>, "Error running git commit: ",
                  runGit(CommitArgs(message), exit))

git_log(limit, exit) ==
    /\ variant = "isolated"
    /\ GitRespond("git_log", <<limit>>, "Error running git log: ",
                  runGit(<< <<"log">>, <<"-n">>, <<ToString(limit)>> >>, exit))

MissingEnv == <<"Missing PROJECT_REPO or GITHUB_TOKEN environment variable.">>

git_remote_set_url_from_env(exit) ==
    /\ variant = "isolated"
    /\ LET repo == env.PROJECT_REPO
           token == env.GITHUB_TOKEN
       IN  IF Falsy(repo) \/ Falsy(token)
           THEN /\ Respond("git_remote_set_url_from_env", <<>>, ToolError(MissingEnv),
                           Outcome(NoError, <<>>, <<>>, fs))
                /\ UNCHANGED <<variant, input, workspaceFolderName, env, uuidCount, history,
                               written>>
           ELSE LET o == runGit(<< <<"remote">>, <<"set-url">>, <<"origin">>,
                                   RemoteUrl(repo, token) >>, exit)
                IN  GitRespond("git_remote_set_url_from_env", <<>>,
                               "Error setting git remote URL: ",
                               WithValue(o, IF o.value = <<>>
                                            THEN <<"Remote URL updated.">>
                                            ELSE o.value))

git_branch_delete(branch, force, exit) ==
    /\ variant = "isolated"
    /\ GitRespond("git_branch_delete", <<branch, force>>, "Error deleting git branch: ",
                  runGit(BranchDeleteArgs(branch, force), exit))

\* both commands run, whatever the first one's exit status
CreateAndPush_Both(branch, startPoint, exit1, exit2) ==
    LET create == runGit(CheckoutArgs(branch, startPoint), exit1)
        push == runGit(PushArgs(branch), exit2)
        error == IF create.error # NoError THEN create.error ELSE push.error
    IN  Outcome(error, IF error = NoError THEN create.value \o push.value ELSE <<>>,
                create.effects \o push.effects, push.fs)

\* the second runGit is reached only when the first did not throw
CreateAndPush(branch, startPoint, exit1, exit2) ==
    LET create == runGit(CheckoutArgs(branch, startPoint), exit1)
        push == runGit(PushArgs(branch), exit2)
    IN  IF create.error # NoError THEN create
        ELSE Outcome(push.error,
                     IF push.error = NoError THEN create.value \o push.value ELSE <<>>,
                     create.effects \o push.effects, push.fs)

git_branch_create_and_push(branch, startPoint, exit1, exit2) ==
    /\ variant = "isolated"
    /\ GitRespond("git_branch_create_and_push", <<branch, startPoint>>,
                  "Error creating and pushing git branch: ",
                  CreateAndPush(branch, startPoint, exit1, exit2))

(***************************************************************************)
(* The tools and the resource of the direct variant.                       *)
(***************************************************************************)
read_file_direct(filePath) ==
    /\ variant = "direct"
    /\ LET o == ReadFile(resolveDirect(filePath)) IN
       Respond("read_file", <<filePath>>, TryCatch("Error reading file: ", o), o)
    /\ UNCHANGED <<variant, input, workspaceFolderName, env, uuidCount, history, written>>

write_file_direct(filePath, content) ==
    /\ variant = "direct"
    /\ LET resolved == resolveDirect(filePath)
           o == WriteFile(resolved, content, <<"Successfully wrote to ">> \o filePath)
       IN  /\ Respond("write_file", <<filePath, content>>,
                      TryCatch("Error writing file: ", o), o)
           /\ written' = NoteWrite(filePath, content, resolved, o)
    /\ UNCHANGED <<variant, input, workspaceFolderName, env, uuidCount, history>>

delete_file_direct(filePath) ==
    /\ variant = "direct"
    /\ LET resolved == resolveDirect(filePath)
           o == Unlink(resolved, <<"Successfully deleted ">> \o filePath)
       IN  /\ Respond("delete_file", <<filePath>>,
                      TryCatch("Error deleting file: ", o), o)
           /\ written' = NoteDelete(filePath, resolved)
    /\ UNCHANGED <<variant, input, workspaceFolderName, env, uuidCount, history>>

list_dir_direct(dirPath) ==
    /\ variant = "direct"
    /\ \E order \in ReaddirOrders(resolveDirect(dirPath)) :
         LET o == Readdir(resolveDirect(dirPath), order) IN
         Respond("list_dir", <<dirPath>>, TryCatch("Error listing directory: ", o), o)
    /\ UNCHANGED <<variant, input, workspaceFolderName, env, uuidCount, history, written>>

\* registerResource("file", "file:///{path}"): a failure is thrown again
ResourceReturn(filePath, o) ==
    IF o.error = NoError
    THEN [kind |-> "resource",
          contents |-> <<[uri |-> <<"file:///">> \o filePath, text |-> o.value]>>]
    ELSE Raised(<<"Resource error: ">> \o o.error)

file_resource(filePath) ==
    /\ variant = "direct"
    /\ LET o == ReadFile(resolveDirect(filePath)) IN
       Respond("file", <<filePath>>, ResourceReturn(filePath, o), o)
    /\ UNCHANGED <<variant, input, workspaceFolderName, env, uuidCount, history, written>>

GitDirect(tool, args, prefix, o) ==
    /\ variant = "direct"
    /\ GitRespond(tool, args, prefix, o)

git_status_direct(repoPath, exit) ==
    GitDirect("git_status", <<repoPath>>, "Error running git status: ",
              runGitDirect(<< <<"status">> >>, repoPath, exit))

git_diff_direct(staged, file, repoPath, exit) ==
    GitDirect("git_diff", <<staged, file, repoPath>>, "Error running git diff: ",
              runGitDirect(DiffArgs(staged, file), repoPath, exit))

git_add_direct(files, repoPath, exit) ==
    GitDirect("git_add", <<files, repoPath>>, "Error running git add: ",
              WithValue(runGitDirect(<< <<"add">> >> \o files, repoPath, exit),
                        <<"Successfully added: ">> \o JoinWith(files, <<",", " ">>)))

git_commit_direct(message, repoPath, exit) ==
    GitDirect("git_commit", <<message, repoPath>>, "Error running git commit: ",
              runGitDirect(CommitArgs(message), repoPath, exit))

git_log_direct(limit, repoPath, exit) ==
    GitDirect("git_log", <<limit, repoPath>>, "Error running git log: ",
              runGitDirect(<< <<"log">>, <<"-n">>, <<ToString(limit)>> >>, repoPath, exit))

git_branch_delete_direct(branch, force, repoPath, exit) ==
    GitDirect("git_branch_delete", <<branch, force, repoPath>>,
              "Error deleting git branch: ",
              runGitDirect(BranchDeleteArgs(branch, force), repoPath, exit))

git_branch_create_direct(branch, startPoint, repoPath, exit) ==
    GitDirect("git_branch_create", <<branch, startPoint, repoPath>>,
              "Error creating git branch: ",
              runGitDirect(BranchCreateArgs(branch, startPoint), repoPath, exit))

(***************************************************************************)
(* Initial states: the state after the module has been loaded.             *)
(***************************************************************************)
EmptyFs == [c \in {} |-> DirNode]

\* /app, the directory the direct variant runs in
AppFs == Put(EmptyFs, <<<<"app">>>>, DirNode)

\* /workspace as the server can find it at start
RootAbsent == AppFs
RootEmpty == Put(AppFs, <<<<"workspace">>>>, DirNode)
RootFile == Put(RootEmpty, <<<<"workspace">>, <<"a">>>>, FileNode(<<"x">>))
RootDir ==
    Put(Put(RootEmpty,
        <<<<"workspace">>, <<"d">>>>, DirNode),
        <<<<"workspace">>, <<"d">>, <<"a">>>>, FileNode(<<"y">>))
RootLoose == Put(RootDir, <<<<"workspace">>, <<"a">>>>, FileNode(<<"x">>))
RootIsFile == Put(AppFs, <<<<"workspace">>>>, FileNode(<<>>))

NoCall == [tool |-> "none", args |-> <<>>]
NoResult == [kind |-> "none"]
NoInput == <<>>

InitWith(variants, roots, envs, inputs) ==
    /\ variant \in variants
    /\ workspaceFolderName = NULL
    /\ fs \in roots
    /\ env \in envs
    /\ uuidCount = 0
    /\ history = <<>>
    /\ written = <<>>
    /\ call = NoCall
    /\ result = NoResult
    /\ thrown = NoError
    /\ ops = <<>>
    /\ input \in inputs

Env(repo, token) == [PROJECT_REPO |-> repo, GITHUB_TOKEN |-> token]

(***************************************************************************)
(* The full machine: every tool of both variants, a few inputs each.       *)
(***************************************************************************)
MaxInitCalls == 2   \* initialize_work calls in the runs of the full machine

HttpsX == <<"http", "s", ":", "/", "/", "x">>
Token == <<"tok">>

\* file names the clients of the full machine send
NameInputs == { <<"a">>, <<"d">>, <<"a", "/", "a">>, <<".">>, <<".", ".", "/", "a">> }
PathInputs == { <<"a">>, <<"/", "workspace", "/", "a">>, <<"/", "workspace">> }
ContentInputs == { <<"x">> }
FileArgInputs == { Undefined, <<"a">> }
FilesInputs == { <<>>, << <<"a">>, <<"d">> >> }
MessageInputs == { <<"m">>, <<"\"">> }
DefaultLimit == 10
BranchInputs == { <<"b">> }
StartPointInputs == { Undefined, <<"main">> }
RepoPathInputs == { Undefined, <<"/", "workspace">> }

Init ==
    InitWith({"isolated", "direct"}, {RootDir},
             {Env(Undefined, Token), Env(HttpsX, Token)}, {NoInput})

FileTools(names, contents) ==
    \/ \E name \in names : read_file(name)
    \/ \E name \in names, content \in contents : write_file(name, content)
    \/ \E name \in names : delete_file(name)

FileToolsDirect(paths, contents) ==
    \/ \E filePath \in paths : read_file_direct(filePath)
    \/ \E filePath \in paths, content \in contents : write_file_direct(filePath, content)
    \/ \E filePath \in paths : delete_file_direct(filePath)

GitTools ==
    \E exit \in GitExits :
        \/ git_status(exit)
        \/ \E staged \in BOOLEAN, file \in FileArgInputs : git_diff(staged, file, exit)
        \/ \E files \in FilesInputs : git_add(files, exit)
        \/ \E message \in MessageInputs : git_commit(message, exit)
        \/ git_log(DefaultLimit, exit)
        \/ git_remote_set_url_from_env(exit)
        \/ \E branch \in BranchInputs, force \in BOOLEAN :
               git_branch_delete(branch, force, exit)
        \/ \E branch \in BranchInputs, startPoint \in StartPointInputs,
              exit2 \in GitExits :
               git_branch_create_and_push(branch, startPoint, exit, exit2)

GitToolsDirect ==
    \E exit \in GitExits, repoPath \in RepoPathInputs :
        \/ git_status_direct(repoPath, exit)
        \/ \E staged \in BOOLEAN, file \in FileArgInputs :
               git_diff_direct(staged, file, repoPath, exit)
        \/ \E files \in FilesInputs : git_add_direct(files, repoPath, exit)
        \/ \E message \in MessageInputs : git_commit_direct(message, repoPath, exit)
        \/ git_log_direct(DefaultLimit, repoPath, exit)
        \/ \E branch \in BranchInputs, force \in BOOLEAN :
               git_branch_delete_direct(branch, force, repoPath, exit)
        \/ \E branch \in BranchInputs, startPoint \in StartPointInputs :
               git_branch_create_direct(branch, startPoint, repoPath, exit)

Next ==
    \/ (uuidCount < MaxInitCalls /\ initialize_work)
    \/ FileTools(NameInputs, ContentInputs)
    \/ list_dir
    \/ GitTools
    \/ FileToolsDirect(PathInputs, ContentInputs)
    \/ \E dirPath \in PathInputs : list_dir_direct(dirPath)
    \/ \E filePath \in PathInputs : file_resource(filePath)
    \/ GitToolsDirect

Spec == Init /\ [][Next]_vars

(***************************************************************************)
(* The workspace initializer with two probes.                              *)
(***************************************************************************)
InitInit ==
    InitWith({"isolated"}, {RootAbsent, RootFile, RootDir, RootIsFile},
             {Env(Undefined, Undefined)}, {NoInput})

NextInit ==
    \/ initialize_work
    \/ read_file(<<"a">>)
    \/ \E exit \in GitExits : git_status(exit)

SpecInit == InitInit /\ [][NextInit]_vars

(***************************************************************************)
(* The path resolver of the isolated variant on every short file name.     *)
(* Each run keeps sending one name.                                        *)
(***************************************************************************)
NameAlphabet == {"a", ".", "/"}

\* absolute names that point into a workspace, and longer ways out and back
LongNames ==
    { <<"/", "workspace", "/", UuidPieces[1]>> \o t :
          t \in { <<>>, <<"/">>, <<"/", "a">>, <<"/", ".", ".">>, <<"/", "a", "/", ".", ".">> } }
    \cup { <<".", ".", "/", UuidPieces[1], "/", "a">>,
           <<".", ".", "/", UuidPieces[2], "/", "a">>,
           <<"a", "/", ".", ".", "/", ".", ".", "/", "a">>,
           <<"/", "workspace", "/", UuidPieces[1], "a">> }

\* z.string().min(1)
AllNames == (SeqsUpTo(NameAlphabet, MaxNameLen) \ {<<>>}) \cup LongNames

InitPath ==
    InitWith({"isolated"}, {RootFile}, {Env(Undefined, Undefined)}, AllNames)

NextPath ==
    \/ (uuidCount < MaxInitCalls /\ initialize_work)
    \/ read_file(input)
    \/ write_file(input, <<"x">>)
    \/ delete_file(input)

SpecPath == InitPath /\ [][NextPath]_vars

(***************************************************************************)
(* Writing and reading back every short content.  Each run keeps sending   *)
(* one content, and a fixed other one, under two names of the same file.   *)
(***************************************************************************)
CodeUnits == {"x", "HI", "LO"}
AllContents == SeqsUpTo(CodeUnits, MaxContentLen)
OtherContent == <<"z", "z", "z">>

InitRoundTrip ==
    InitWith({"isolated", "direct"}, {RootEmpty}, {Env(Undefined, Undefined)},
             AllContents)

\* a second name of the file a: ./a in the workspace, /app/a in the direct variant
Alias == <<".", "/", "a">>
AliasDirect == <<"/", "app", "/", "a">>

NextRoundTrip ==
    \/ (uuidCount < MaxInitCalls /\ initialize_work)
    \/ \E name \in {<<"a">>, Alias} : read_file(name)
    \/ \E content \in {input, OtherContent} : write_file(<<"a">>, content)
    \/ write_file(Alias, OtherContent)
    \/ delete_file(Alias)
    \/ \E filePath \in {<<"a">>, AliasDirect} : read_file_direct(filePath)
    \/ \E content \in {input, OtherContent} : write_file_direct(<<"a">>, content)
    \/ write_file_direct(AliasDirect, OtherContent)
    \/ delete_file_direct(AliasDirect)

SpecRoundTrip == InitRoundTrip /\ [][NextRoundTrip]_vars

(***************************************************************************)
(* git_commit on every short message.  Each run keeps sending one message. *)
(***************************************************************************)
\* "backtick" stands for the one character `
MessageAlphabet == {"a", "\"", "\\", "$", "backtick"}
AllMessages == SeqsUpTo(MessageAlphabet, MaxMsgLen)

InitCommit ==
    InitWith({"isolated", "direct"}, {RootEmpty}, {Env(Undefined, Undefined)},
             AllMessages)

NextCommit ==
    \/ (uuidCount < MaxInitCalls /\ initialize_work)
    \/ \E exit \in GitExits : git_commit(input, exit)
    \/ \E exit \in GitExits, repoPath \in RepoPathInputs :
           git_commit_direct(input, repoPath, exit)

SpecCommit == InitCommit /\ [][NextCommit]_vars

(***************************************************************************)
(* git_remote_set_url_from_env under every short PROJECT_REPO.             *)
(***************************************************************************)
Http == <<"http", ":", "/", "/">>
Https == <<"http", "s", ":", "/", "/">>
RepoStarts == { <<>>, Http, Https, Https \o Https, <<"http", ":", "/">> }
AllRepos ==
    { start \o body : start \in RepoStarts,
                      body \in SeqsUpTo({"x", "@", "/"}, MaxRepoLen) }

InitRemote ==
    InitWith({"isolated"}, {RootEmpty},
             { Env(repo, token) : repo \in AllRepos \cup {Undefined},
                                  token \in {Undefined, <<>>, Token} },
             {NoInput})

NextRemote ==
    \/ (uuidCount < MaxInitCalls /\ initialize_work)
    \/ \E exit \in GitExits : git_remote_set_url_from_env(exit)

SpecRemote == InitRemote /\ [][NextRemote]_vars

(***************************************************************************)
(* git_branch_create_and_push with every outcome of its two commands.      *)
(***************************************************************************)
BranchNames == { <<"b">>, <<"f", "/", "b">> }
StartPoints == { Undefined, <<>>, <<"main">> }

InitBranch ==
    InitWith({"isolated"}, {RootAbsent, RootFile, RootDir},
             {Env(Undefined, Undefined)}, {NoInput})

NextBranch ==
    \/ (uuidCount < MaxInitCalls /\ initialize_work)
    \/ \E branch \in BranchNames, startPoint \in StartPoints, exit1, exit2 \in GitExits :
           git_branch_create_and_push(branch, startPoint, exit1, exit2)

SpecBranch == InitBranch /\ [][NextBranch]_vars

(***************************************************************************)
(* Properties.                                                             *)
(***************************************************************************)
IsToolError(r) == r.kind = "result" /\ "isError" \in DOMAIN r /\ r.isError = TRUE
IsToolSuccess(r) == r.kind = "result" /\ "isError" \notin DOMAIN r
OneText(r) == Len(r.content) = 1 /\ r.content[1].type = "text"
TextOf(r) == r.content[1].text

\* the text ends with the message of the error
Embeds(r, message) ==
    /\ OneText(r)
    /\ Len(TextOf(r)) > Len(message)
    /\ SubSeq(TextOf(r), Len(TextOf(r)) - Len(message) + 1, Len(TextOf(r))) = message

WorkspaceTools ==
    { "read_file", "write_file", "delete_file", "list_dir", "git_status", "git_diff",
      "git_add", "git_commit", "git_log", "git_branch_delete",
      "git_branch_create_and_push", "git_remote_set_url_from_env" }

EnvMissing == Falsy(env.PROJECT_REPO) \/ Falsy(env.GITHUB_TOKEN)

\* C1 as stated: a call of a workspace-scoped tool made while no
\* initialize_work has succeeded returns an error result whose cause is the
\* "not initialized" error, and calls neither the filesystem nor git.
C1_AlwaysNotInitialized ==
    [][ (variant = "isolated" /\ history = <<>> /\ call'.tool \in WorkspaceTools)
        => /\ IsToolError(result')
           /\ thrown' = NotInitialized
           /\ Embeds(result', NotInitialized)
           /\ ops' = <<>>
           /\ fs' = fs ]_vars

\* C1 amended: a call of a workspace-scoped tool made while no
\* initialize_work has succeeded returns an error result and calls neither
\* the filesystem nor git; its cause is the "not initialized" error, except
\* for git_remote_set_url_from_env with PROJECT_REPO or GITHUB_TOKEN unset or
\* empty, which reports the missing variable.
C1_NotInitialized ==
    [][ (variant = "isolated" /\ history = <<>> /\ call'.tool \in WorkspaceTools)
        => /\ IsToolError(result')
           /\ ops' = <<>>
           /\ fs' = fs
           /\ IF call'.tool = "git_remote_set_url_from_env" /\ EnvMissing
              THEN OneText(result') /\ TextOf(result') = MissingEnv
              ELSE thrown' = NotInitialized /\ Embeds(result', NotInitialized) ]_vars

\* a workspace-scoped tool has answered "not initialized" after an
\* initialize_work call that failed
C1_Witness ==
    /\ variant = "isolated" /\ history = <<>> /\ uuidCount > 0
    /\ call.tool = "git_branch_create_and_push"
    /\ thrown = NotInitialized

FileTools3 == {"read_file", "write_file", "delete_file"}

WorkspaceDirOf(id) == PathJoin(WORKSPACE_ROOT, id)

\* p names something strictly below the directory dir
StrictlyInside(p, dir) ==
    /\ IsPrefix(Components(dir), Components(p))
    /\ Len(Components(p)) > Len(Components(dir))

\* root/name, normalized
RootSlashName(dir, name) == AbsPath(Components(dir \o <<"/">> \o name))

Rejected == IsToolError(result) /\ thrown = InvalidFileName /\ ops = <<>>

\* C2 as stated: for every name passed to read_file, write_file or
\* delete_file the resolver returns the normalized root/name, a strict
\* descendant of the active workspace directory, or fails with the
\* invalid-path error, so no file operation is issued outside it.
C2_RootSlashName ==
    (variant = "isolated" /\ call.tool \in FileTools3 /\ workspaceFolderName # NULL)
    => LET dir == WorkspaceDirOf(workspaceFolderName)
           name == call.args[1]
       IN  \/ Rejected
           \/ /\ Len(ops) = 1
              /\ ops[1].path = RootSlashName(dir, name)
              /\ StrictlyInside(ops[1].path, dir)

\* C2 amended: the resolver returns path.resolve(root, name) - root/name
\* normalized for a relative name, the normalized name itself for an
\* absolute one - when that is a strict descendant of the active workspace
\* directory, and fails with the invalid-path error otherwise: a name that
\* normalizes to the workspace directory or outside it is rejected, and no
\* file operation is issued on a path that is not strictly inside.
C2_ResolvedInside ==
    (variant = "isolated" /\ call.tool \in FileTools3 /\ workspaceFolderName # NULL)
    => LET dir == WorkspaceDirOf(workspaceFolderName)
           name == call.args[1]
           target == IF IsAbsolute(name) THEN AbsPath(Components(name))
                     ELSE RootSlashName(dir, name)
       IN  IF StrictlyInside(target, dir)
           THEN Len(ops) = 1 /\ ops[1].path = target /\ thrown # InvalidFileName
           ELSE Rejected

\* write_file has refused a name that leaves the workspace through ".."
C2_Witness ==
    /\ variant = "isolated" /\ workspaceFolderName # NULL
    /\ call.tool = "write_file" /\ call.args[1] = <<".", ".", "/", "a">>
    /\ Rejected

\* C3 as stated: when initialize_work fails the active identifier is left
\* unset, so the workspace-scoped tools keep answering "not initialized".
C3_FailureLeavesUnset ==
    [][ (call'.tool = "initialize_work" /\ IsToolError(result'))
        => workspaceFolderName' = NULL ]_vars

LastOf(q) == q[Len(q)]
RangeOf(q) == {q[i] : i \in DOMAIN q}

\* the directory an operation of a workspace-scoped tool works in
UsesDir(op, dir) ==
    IF op.op = "exec" THEN op.path = dir ELSE StrictlyInside(op.path, dir)

\* C4: a successful initialize_work yields an identifier no earlier
\* successful call yielded and makes it the active one; every later path
\* resolution and git invocation uses root/<identifier of the last
\* successful call>.
C4_SecondIsActive ==
    [][ /\ (call'.tool = "initialize_work" /\ IsToolSuccess(result'))
           => /\ history' = Append(history, workspaceFolderName')
              /\ workspaceFolderName' \notin RangeOf(history)
              /\ workspaceFolderName' # workspaceFolderName
        /\ (call'.tool \in WorkspaceTools /\ history # <<>>)
           => \A i \in DOMAIN ops' :
                  UsesDir(ops'[i], WorkspaceDirOf(LastOf(history))) ]_vars

\* after two successful initialize_work calls a tool has run in the second
\* workspace
C4_Witness ==
    /\ Len(history) = 2 /\ workspaceFolderName = history[2]
    /\ call.tool = "git_status" /\ Len(ops) = 1
    /\ ops[1].path = WorkspaceDirOf(history[2])

\* C5 as stated: after its first assignment the identifier never changes.
C5_WrittenOnce ==
    [][ workspaceFolderName # NULL => workspaceFolderName' = workspaceFolderName ]_vars

\* C5 amended: the identifier is assigned only by initialize_work, once by
\* every call that succeeds (so it changes again with each later successful
\* call); it is never reset, and no other tool and no failing call assigns it.
C5_OnlyInitializeWrites ==
    [][ /\ workspaceFolderName' # workspaceFolderName
           => /\ call'.tool = "initialize_work" /\ IsToolSuccess(result')
              /\ workspaceFolderName' # NULL
        /\ (call'.tool = "initialize_work" /\ IsToolSuccess(result'))
           => workspaceFolderName' # workspaceFolderName ]_vars

\* a second successful initialize_work has replaced the identifier
C5_Witness ==
    /\ call.tool = "initialize_work" /\ IsToolSuccess(result)
    /\ Len(history) = 2 /\ workspaceFolderName = history[2]

ToolNames ==
    WorkspaceTools \cup {"initialize_work", "git_branch_create"}

\* a failure that the handler reports without anything being thrown
ReportedMissingEnv ==
    variant = "isolated" /\ call.tool = "git_remote_set_url_from_env" /\ EnvMissing

\* C6: every error raised inside a tool handler comes back as a result with
\* isError = true and exactly one text item that ends with the error's
\* message; no tool call ends with an error leaving the handler; a call in
\* which nothing failed returns a result without isError.  The resource
\* read is the only handler that raises, with the message in what it raises.
C6_FailuresAreResults ==
    /\ call.tool \in ToolNames
       => /\ result.kind = "result" /\ OneText(result)
          /\ thrown # NoError => (IsToolError(result) /\ Embeds(result, thrown))
          /\ ReportedMissingEnv => (IsToolError(result) /\ thrown = NoError)
          /\ (thrown = NoError /\ ~ReportedMissingEnv) => IsToolSuccess(result)
    /\ call.tool = "file"
       => IF thrown = NoError THEN result.kind = "resource"
          ELSE /\ result.kind = "throw"
               /\ result.message = <<"Resource error: ">> \o thrown
    /\ call.tool \in ToolNames \cup {"file", "none"}

\* delete_file has met a filesystem error and returned it as an error result
C6_Witness ==
    /\ variant = "isolated" /\ call.tool = "delete_file"
    /\ thrown = ENOENT
    /\ IsToolError(result) /\ TextOf(result) = <<"Error deleting file: ", "ENOENT">>

\* the components of the file a delete_file call names, once resolved
DeleteTarget == Components(ops'[1].path)

\* C8: delete_file on a name that names nothing returns isError = true with
\* the not-found error (ENOENT, or ENOTDIR when a file stands where a
\* directory of the name should be) and leaves every file and the active
\* identifier as they were; on a name that names a file it removes exactly
\* that file, so that the name names nothing afterwards.
C8_DeleteMissing ==
    [][ (call'.tool = "delete_file" /\ Len(ops') = 1)
        => /\ workspaceFolderName' = workspaceFolderName
           /\ ~Exists(fs, DeleteTarget)
              => /\ IsToolError(result') /\ Embeds(result', thrown')
                 /\ thrown' = (IF \E k \in 1..(Len(DeleteTarget) - 1) :
                                     LET q == SubSeq(DeleteTarget, 1, k) IN
                                     Exists(fs, q) /\ ~IsDir(fs, q)
                               THEN ENOTDIR ELSE ENOENT)
                 /\ fs' = fs
           /\ (Exists(fs, DeleteTarget) /\ ~IsDir(fs, DeleteTarget))
              => /\ IsToolSuccess(result')
                 /\ DOMAIN fs' = DOMAIN fs \ {DeleteTarget}
                 /\ \A c \in DOMAIN fs' : fs'[c] = fs[c] ]_vars

\* delete_file has answered not-found for a name inside the workspace
C8_Witness ==
    /\ variant = "isolated" /\ call.tool = "delete_file"
    /\ call.args[1] = <<"a">> /\ Len(ops) = 1
    /\ IsToolError(result) /\ thrown = ENOENT
    /\ Components(ops[1].path) \notin DOMAIN fs

\* no unpaired surrogate
WellFormed(content) ==
    \A i \in DOMAIN content :
        /\ content[i] = "HI" => (i < Len(content) /\ content[i + 1] = "LO")
        /\ content[i] = "LO" => (i > 1 /\ content[i - 1] = "HI")

ReadName == call'.args[1]

\* C7 as stated: after a successful write_file(name, content), with no
\* write_file, delete_file or initialize_work on that name since, read_file
\* of the name returns exactly the content, without isError.
C7_RoundTrip ==
    [][ (call'.tool = "read_file" /\ ReadName \in DOMAIN written)
        => /\ IsToolSuccess(result') /\ OneText(result')
           /\ TextOf(result') = written[ReadName].content ]_vars

\* C7 amended: after a successful write_file(name, content), with no
\* initialize_work and no write_file or delete_file that reaches the same
\* file under any name since, read_file of the name succeeds with one text
\* item, which is exactly the content when the content has no unpaired
\* surrogate (and differs from it otherwise); a second write_file replaces
\* the earlier content.
C7_RoundTripWellFormed ==
    [][ (/\ call'.tool = "read_file"
         /\ ReadName \in DOMAIN written
         /\ ~written[ReadName].touched)
        => /\ IsToolSuccess(result') /\ OneText(result')
           /\ WellFormed(written[ReadName].content)
              <=> TextOf(result') = written[ReadName].content ]_vars

\* a surrogate pair has been written over an earlier content and read back
C7_Witness ==
    /\ call.tool = "read_file" /\ IsToolSuccess(result)
    /\ call.args[1] \in DOMAIN written
    /\ written[call.args[1]].content = <<"HI", "LO">>
    /\ TextOf(result) = <<"HI", "LO">>
    /\ \E n \in DOMAIN written : written[n].touched

CountOf(s, ch) == Cardinality({i \in DOMAIN s : s[i] = ch})

\* q without the backslash that stands right before each double quote
RECURSIVE Unescape(_)
Unescape(q) ==
    IF q = <<>> THEN <<>>
    ELSE IF Len(q) >= 2 /\ q[1] = "\\" /\ q[2] = "\""
         THEN <<"\"">> \o Unescape(SubSeq(q, 3, Len(q)))
    ELSE <<q[1]>> \o Unescape(Tail(q))

CommitPrefix == <<"git", " ", "commit", " ", "-m", " ", "\"">>

\* C9: git_commit runs git commit -m "<m>", where <m> is the message with a
\* backslash put before every double quote and nothing else changed, so
\* that every double quote of <m> follows a backslash.
C9_QuotesEscaped ==
    (call.tool = "git_commit" /\ ops # <<>>)
    => /\ Len(ops) = 1 /\ ops[1].op = "exec"
       /\ LET cmd == ops[1].arg
              message == call.args[1]
              m == SubSeq(cmd, Len(CommitPrefix) + 1, Len(cmd) - 1)
          IN  /\ StartsWith(cmd, CommitPrefix)
              /\ Len(cmd) = Len(CommitPrefix) + Len(m) + 1
              /\ cmd[Len(cmd)] = "\""
              /\ Len(m) = Len(message) + CountOf(message, "\"")
              /\ Unescape(m) = message
              /\ \A i \in DOMAIN m : m[i] = "\"" => (i > 1 /\ m[i - 1] = "\\")

\* a message with two double quotes and a backslash has been committed
C9_Witness ==
    /\ call.tool = "git_commit" /\ Len(ops) = 1
    /\ call.args[1] = <<"\"", "\\", "\"">>
    /\ IsToolSuccess(result)

RemotePrefix(token) ==
    <<"git", " ", "remote", " ", "set-url", " ", "origin", " ">> \o Https
        \o token \o <<"@">>

\* the first "@" of s, when there is one, is at the start or after a slash:
\* s does not begin with a user@ in front of its host
NoCredentialPrefix(s) ==
    \A i \in DOMAIN s :
        (s[i] = "@" /\ \A j \in 1..(i - 1) : s[j] # "@")
        => (i = 1 \/ \E j \in 1..(i - 1) : s[j] = "/")

\* rest is repo without a leading http:// or https://, without the user@
\* that then stands in front of the host, and without the slashes at the end
IsRestOf(rest, repo) ==
    \E a \in 0..Len(repo) : \E b \in a..Len(repo) : \E c \in b..Len(repo) :
        LET scheme == SubSeq(repo, 1, a)
            user == SubSeq(repo, a + 1, b)
            tail == SubSeq(repo, c + 1, Len(repo))
            afterScheme == SubSeq(repo, a + 1, Len(repo))
        IN  /\ rest = SubSeq(repo, b + 1, c)
            /\ \/ scheme \in {Http, Https}
               \/ scheme = <<>> /\ ~StartsWith(repo, Http) /\ ~StartsWith(repo, Https)
            /\ \/ /\ Len(user) >= 2 /\ user[Len(user)] = "@"
                  /\ CountOf(user, "@") = 1 /\ CountOf(user, "/") = 0
               \/ user = <<>> /\ NoCredentialPrefix(afterScheme)
            /\ \A i \in DOMAIN tail : tail[i] = "/"
            /\ rest = <<>> \/ rest[Len(rest)] # "/"

RemoteCall == variant = "isolated" /\ call.tool = "git_remote_set_url_from_env"

RunsSetUrl ==
    /\ Len(ops) = 1 /\ ops[1].op = "exec"
    /\ ops[1].path = WorkspaceDirOf(workspaceFolderName)
    /\ StartsWith(ops[1].arg, RemotePrefix(env.GITHUB_TOKEN))
    /\ IsRestOf(SubSeq(ops[1].arg, Len(RemotePrefix(env.GITHUB_TOKEN)) + 1,
                       Len(ops[1].arg)),
                env.PROJECT_REPO)

\* C10: with either variable unset or empty git_remote_set_url_from_env
\* returns an error and runs no git command; with both set (and a workspace
\* active) it runs exactly one
\* git remote set-url origin https://<token>@<rest> in the active workspace,
\* where <rest> is the repository URL without a leading http:// or https://,
\* without a user@ credential prefix and without trailing slashes.
C10_CredentialPrefixRemoved ==
    RemoteCall
    => IF EnvMissing THEN IsToolError(result) /\ ops = <<>>
       ELSE workspaceFolderName # NULL => RunsSetUrl

RootComps == Components(WORKSPACE_ROOT)

\* what lies strictly below the directory c in f
Below(f, c) == {d \in DOMAIN f : IsPrefix(c, d) /\ Len(d) > Len(c)}

\* d, found below the directory from, as it is named below the directory to
Rebase(d, from, to) == to \o SubSeq(d, Len(from) + 1, Len(d))

\* all that f held below the root is, in g, below newDir and nowhere else
\* below the root, with the same names, types and contents
MovedInto(f, g, newDir) ==
    /\ \A d \in Below(f, RootComps) :
           /\ Rebase(d, RootComps, newDir) \in DOMAIN g
           /\ g[Rebase(d, RootComps, newDir)] = f[d]
           /\ d \notin DOMAIN g
    /\ \A e \in Below(g, newDir) : Rebase(e, newDir, RootComps) \in Below(f, RootComps)
    /\ newDir \in DOMAIN g /\ g[newDir] = DirNode
    /\ ChildrenOf(g, RootComps) = {newDir}

\* C11: an initialize_work call that succeeds, or that records an
\* identifier, leaves every entry the root held before the call (files,
\* directories with all they contain, the directory of the workspace that
\* was active) under the new workspace directory with the same name and not
\* at the root, so that the new directory is the root's only child; the
\* identifier recorded is that of the new directory.
C11_EntriesMoved ==
    [][ (/\ call'.tool = "initialize_work"
         /\ IsToolSuccess(result') \/ workspaceFolderName' # workspaceFolderName)
        => /\ IsToolSuccess(result')
           /\ workspaceFolderName' = randomUUID
           /\ MovedInto(fs, fs', RootComps \o <<randomUUID>>) ]_vars

\* a second workspace has been initialized over a first one that held the
\* directory d and its file
C11_Witness ==
    /\ call.tool = "initialize_work" /\ IsToolSuccess(result)
    /\ Len(history) >= 2
    /\ workspaceFolderName = history[2]
    /\ RootComps \o <<history[2], history[1], <<"d">>, <<"a">>>> \in DOMAIN fs
    /\ fs[RootComps \o <<history[2], history[1], <<"d">>, <<"a">>>>] = FileNode(<<"y">>)

CheckoutLine(branch, startPoint) ==
    <<"git", " ", "checkout", " ", "-b", " ">> \o branch
        \o (IF startPoint \in {Undefined, <<>>} THEN <<>> ELSE <<" ">> \o startPoint)

PushLine(branch) == <<"git", " ", "push", " ", "-u", " ", "origin", " ">> \o branch

RanIn(op, line) ==
    /\ op.op = "exec" /\ op.arg = line
    /\ op.path = WorkspaceDirOf(workspaceFolderName)

\* C12: git_branch_create_and_push runs checkout -b <branch> [startPoint]
\* first and push -u origin <branch> second, the push only when the checkout
\* succeeded; after a failed checkout nothing else is run; after a failed
\* push the result is an error that carries the push command's error text,
\* and no further command is run (nothing undoes the checkout).
C12_CheckoutThenPush ==
    (variant = "isolated" /\ call.tool = "git_branch_create_and_push")
    => LET checkout == CheckoutLine(call.args[1], call.args[2])
           push == PushLine(call.args[1])
       IN  \/ /\ ops = <<>>
              /\ workspaceFolderName = NULL
              /\ IsToolError(result) /\ thrown = NotInitialized
           \/ /\ Len(ops) = 1 /\ RanIn(ops[1], checkout)
              /\ IsToolError(result) /\ Embeds(result, thrown)
              /\ thrown \in {CommandFailed(checkout), SpawnFailed}
           \/ /\ Len(ops) = 2 /\ RanIn(ops[1], checkout) /\ RanIn(ops[2], push)
              /\ \/ IsToolSuccess(result) /\ thrown = NoError
                 \/ /\ IsToolError(result) /\ Embeds(result, thrown)
                    /\ thrown = CommandFailed(push)

\* the push has failed after the checkout of a branch from a start point
C12_Witness ==
    /\ variant = "isolated" /\ call.tool = "git_branch_create_and_push"
    /\ call.args[2] = <<"main">>
    /\ Len(ops) = 2 /\ IsToolError(result)
    /\ thrown = CommandFailed(PushLine(call.args[1]))

\* C13: whenever the active workspace identifier is set, the directory
\* root/<identifier> exists as an immediate child of the workspace root.
C13_ActiveDirExists ==
    workspaceFolderName # NULL
    => /\ RootComps \o <<workspaceFolderName>> \in ChildrenOf(fs, RootComps)
       /\ IsDir(fs, RootComps \o <<workspaceFolderName>>)

====
